---- MODULE Spec2Model ----
(***************************************************************************)
(* iptables_exporter: the Prometheus collector of src/iptables_exporter.go *)
(* as a state machine.  A scrape is one invocation of collector.Collect;   *)
(* several may run at once.  Strings that the code inspects character by   *)
(* character (the configured commands) are sequences of one-character      *)
(* strings; 64-bit counters are pairs <<hi, lo>> standing for              *)
(* hi * 2^30 + lo, because the conversion float64(uint64) only differs     *)
(* from the identity above 2^53.                                           *)
(***************************************************************************)
EXTENDS Integers, Sequences, FiniteSets, Bags, TLC

\* Number of Collect invocations the model follows (they may overlap).
MaxScrapes == 2

\* Size of the fixed command array, var commands [2]string.
NumCommands == 2

Slots == 1..NumCommands

---------------------------------------------------------------------------
(* Numbers *)

\* The uint64 hi * 2^30 + lo, with lo < 2^30.
U64(hi, lo) == <<hi, lo>>

Num(n) == U64(0, n)

RECURSIVE BitLen(_)
BitLen(n) == IF n = 0 THEN 0 ELSE 1 + BitLen(n \div 2)

RECURSIVE Pow2(_)
Pow2(k) == IF k = 0 THEN 1 ELSE 2 * Pow2(k - 1)

LimbBase == Pow2(30)

\* float64(x) of a uint64 x: exact while x has at most 53 significant bits,
\* otherwise the 53 leading bits rounded to nearest, ties to even.  The
\* result is an integer again and is written in the same two limbs.
float64(x) ==
    LET hi == x[1]
        lo == x[2]
        k == BitLen(hi) - 23
    IN  IF k <= 0 THEN x
        ELSE LET q == Pow2(k)
                 r == lo % q
                 odd == (lo \div q) % 2 = 1
                 up == (2 * r > q) \/ (2 * r = q /\ odd)
                 lo2 == IF up THEN lo - r + q ELSE lo - r
             IN  IF lo2 = LimbBase THEN U64(hi + 1, 0) ELSE U64(hi, lo2)

---------------------------------------------------------------------------
(* Strings and the token splitter *)

spaceRunes == {" ", "\t", "\r", "\n"}

\* shlex.Split: the tokens read so far and whether splitting failed.  A
\* failure (end of input inside a quote or after a backslash) drops the
\* unfinished token and keeps the ones before it.
RECURSIVE scanStream(_, _, _, _, _)
scanStream(s, i, state, value, toks) ==
    IF i > Len(s)
    THEN CASE state = "start" -> [tokens |-> toks, err |-> FALSE]
           [] state = "inWord" -> [tokens |-> Append(toks, value), err |-> FALSE]
           [] state = "comment" -> [tokens |-> toks, err |-> FALSE]
           [] OTHER -> [tokens |-> toks, err |-> TRUE]
    ELSE LET c == s[i]
             go(st, v, t) == scanStream(s, i + 1, st, v, t)
         IN  CASE state = "start" ->
                    IF c \in spaceRunes THEN go("start", <<>>, toks)
                    ELSE IF c = "\"" THEN go("quotingEscaping", <<>>, toks)
                    ELSE IF c = "'" THEN go("quoting", <<>>, toks)
                    ELSE IF c = "\\" THEN go("escaping", <<>>, toks)
                    ELSE IF c = "#" THEN go("comment", <<>>, toks)
                    ELSE go("inWord", <<c>>, toks)
               [] state = "inWord" ->
                    IF c \in spaceRunes THEN go("start", <<>>, Append(toks, value))
                    ELSE IF c = "\"" THEN go("quotingEscaping", value, toks)
                    ELSE IF c = "'" THEN go("quoting", value, toks)
                    ELSE IF c = "\\" THEN go("escaping", value, toks)
                    ELSE go("inWord", Append(value, c), toks)
               [] state = "escaping" -> go("inWord", Append(value, c), toks)
               [] state = "escapingQuoted" ->
                    go("quotingEscaping", Append(value, c), toks)
               [] state = "quotingEscaping" ->
                    IF c = "\"" THEN go("inWord", value, toks)
                    ELSE IF c = "\\" THEN go("escapingQuoted", value, toks)
                    ELSE go("quotingEscaping", Append(value, c), toks)
               [] state = "quoting" ->
                    IF c = "'" THEN go("inWord", value, toks)
                    ELSE go("quoting", Append(value, c), toks)
               [] OTHER ->
                    IF c = "\n" THEN go("start", <<>>, toks)
                    ELSE go("comment", value, toks)

Split(s) == scanStream(s, 1, "start", <<>>, <<>>)

RECURSIVE TrimLeft(_, _)
TrimLeft(s, cutset) ==
    IF s # <<>> /\ Head(s) \in cutset THEN TrimLeft(Tail(s), cutset) ELSE s

RECURSIVE TrimRight(_, _)
TrimRight(s, cutset) ==
    IF s # <<>> /\ s[Len(s)] \in cutset
    THEN TrimRight(SubSeq(s, 1, Len(s) - 1), cutset)
    ELSE s

\* strings.Trim(s, cutset)
Trim(s, cutset) == TrimRight(TrimLeft(s, cutset), cutset)

---------------------------------------------------------------------------
(* Inputs *)

\* Values of the flags --iptables.command and --ip6tables.command.
cmdEmpty == <<>>
cmdA == <<"a">>
cmdAC == <<"a", " ", "c">>
cmdBC == <<"b", " ", "c">>
cmdOpenQuoteArg == <<"a", " ", "'", "c">>
cmdOpenQuote == <<"'", "a">>
cmdBlank == <<" ">>
cmdQuotedBlank == <<"'", " ", "'">>
cmdPadded == <<"'", "a", " ", "'", " ", "'", "c", " ", "'">>

FlagValues ==
    { <<cmdA, cmdBC>>, <<cmdA, cmdAC>>, <<cmdEmpty, cmdA>>, <<cmdBC, cmdEmpty>>,
      <<cmdEmpty, cmdEmpty>>, <<cmdOpenQuoteArg, cmdEmpty>>,
      <<cmdQuotedBlank, cmdOpenQuoteArg>>, <<cmdA, cmdOpenQuote>>,
      <<cmdBlank, cmdA>>, <<cmdPadded, cmdEmpty>> }

ruleAccept == "-A INPUT -j ACCEPT"
ruleDrop == "-A INPUT -s 10.0.0.1 -j DROP"

\* Results of the counter-dump parser (iptables.Tables: table name -> chain
\* name -> chain).  tablesOne is the scenario of the specification's section
\* 8 with a second, empty chain; tablesTwo has two tables, the same rule
\* text in both and twice in one chain, and a counter above 2^53.
tablesOne ==
    "filter" :>
        ( "INPUT" :> [Policy |-> "ACCEPT", Packets |-> Num(10), Bytes |-> Num(1000),
                      Rules |-> << [Rule |-> ruleAccept, Packets |-> Num(4),
                                    Bytes |-> Num(400)] >>]
          @@ "FORWARD" :> [Policy |-> "DROP", Packets |-> Num(0), Bytes |-> Num(0),
                           Rules |-> << >>] )

tablesTwo ==
    "filter" :>
        ( "INPUT" :> [Policy |-> "DROP", Packets |-> Num(12),
                      Bytes |-> U64(8388608, 1),
                      Rules |-> << [Rule |-> ruleDrop, Packets |-> Num(3),
                                    Bytes |-> Num(180)],
                                   [Rule |-> ruleAccept, Packets |-> Num(5),
                                    Bytes |-> Num(500)],
                                   [Rule |-> ruleAccept, Packets |-> Num(5),
                                    Bytes |-> Num(500)] >>] )
    @@ "nat" :>
        ( "INPUT" :> [Policy |-> "ACCEPT", Packets |-> Num(7), Bytes |-> Num(700),
                      Rules |-> << [Rule |-> ruleAccept, Packets |-> Num(2),
                                    Bytes |-> Num(120)] >>] )

TablesValues == {tablesOne, tablesTwo}

\* time.Since(start).Seconds(): the wall clock is not modelled, every scrape
\* measures the same elapsed time.
Durations == {1}

---------------------------------------------------------------------------
(* The collector *)

VARIABLES
    flags,       \* the two command flags as given on the command line
    commands,    \* var commands [2]string, as main leaves it
    scrapes,     \* the Collect invocations made so far, each with its locals
    descChan,    \* the descriptors the latest Describe call sent
    descAt       \* how many scrapes had ended when that call was made

vars == <<flags, commands, scrapes, descChan, descAt>>

\* An invocation of Collect has no identity beyond its locals, so scrapes
\* is a bag of records:
\*   pc          "running" (inside GetTables), "done" or "panic"
\*   idx         the slot the range loop is at
\*   command     the loop variable command (the executable)
\*   _command    the token slice _command
\*   metricChan  the samples sent on metricChan, in order
\*   calls       the GetTables invocations made, in order
Scrapes == BagToSet(scrapes)

scrapeDurationDesc == "iptables_scrape_duration_seconds"
scrapeSuccessDesc == "iptables_scrape_success"
defaultBytesDesc == "iptables_default_bytes_total"
defaultPacketsDesc == "iptables_default_packets_total"
ruleBytesDesc == "iptables_rule_bytes_total"
rulePacketsDesc == "iptables_rule_packets_total"

\* prometheus.MustNewConstMetric(desc, valueType, value, labelValues...)
MustNewConstMetric(desc, value, labelValues) ==
    [desc |-> desc, value |-> value, labels |-> labelValues]

\* With an empty flag left as it is.
mainCommandKeepsEmpty(flag) == flag

\* main, lines 205-212: an empty flag becomes the command ''.
mainCommand(flag) == IF Len(flag) < 1 THEN <<"'", "'">> ELSE flag

RECURSIVE Concat(_)
Concat(seqs) == IF seqs = <<>> THEN <<>> ELSE Head(seqs) \o Concat(Tail(seqs))

\* The orders in which a range loop may visit the keys of a map.
Orderings(S) ==
    {p \in [1..Cardinality(S) -> S] : \A i, j \in DOMAIN p : i # j => p[i] # p[j]}

\* For each table, an order in which the inner range loop may visit its chains.
ChainOrderings(tables) ==
    {co \in [DOMAIN tables -> UNION {Orderings(DOMAIN tables[t]) : t \in DOMAIN tables}] :
        \A t \in DOMAIN tables : co[t] \in Orderings(DOMAIN tables[t])}

\* With the bytes sample of a rule forgotten.
ruleMetricsPacketsOnly(cmd, tableName, chainName, rule) ==
    << MustNewConstMetric(rulePacketsDesc, float64(rule.Packets),
                          <<cmd, tableName, chainName, rule.Rule>>) >>

\* With the table left out of a rule's labels.
ruleMetricsTableDropped(cmd, tableName, chainName, rule) ==
    << MustNewConstMetric(rulePacketsDesc, float64(rule.Packets),
                          <<cmd, "", chainName, rule.Rule>>),
       MustNewConstMetric(ruleBytesDesc, float64(rule.Bytes),
                          <<cmd, "", chainName, rule.Rule>>) >>

\* Lines 126-143: the two samples of one rule.
ruleMetrics(cmd, tableName, chainName, rule) ==
    << MustNewConstMetric(rulePacketsDesc, float64(rule.Packets),
                          <<cmd, tableName, chainName, rule.Rule>>),
       MustNewConstMetric(ruleBytesDesc, float64(rule.Bytes),
                          <<cmd, tableName, chainName, rule.Rule>>) >>

\* With the default counters taken the wrong way round.
chainMetricsSwapped(cmd, tableName, chainName, chain) ==
    << MustNewConstMetric(defaultPacketsDesc, float64(chain.Bytes),
                          <<cmd, tableName, chainName, chain.Policy>>),
       MustNewConstMetric(defaultBytesDesc, float64(chain.Packets),
                          <<cmd, tableName, chainName, chain.Policy>>) >>
    \o Concat([r \in DOMAIN chain.Rules |->
                  ruleMetrics(cmd, tableName, chainName, chain.Rules[r])])

\* With the rules of a chain sent before its default counters.
chainMetricsRulesFirst(cmd, tableName, chainName, chain) ==
    Concat([r \in DOMAIN chain.Rules |->
               ruleMetrics(cmd, tableName, chainName, chain.Rules[r])])
    \o << MustNewConstMetric(defaultPacketsDesc, float64(chain.Packets),
                             <<cmd, tableName, chainName, chain.Policy>>),
          MustNewConstMetric(defaultBytesDesc, float64(chain.Bytes),
                             <<cmd, tableName, chainName, chain.Policy>>) >>

\* Lines 107-145: the samples of one chain, its default counters first.
chainMetrics(cmd, tableName, chainName, chain) ==
    << MustNewConstMetric(defaultPacketsDesc, float64(chain.Packets),
                          <<cmd, tableName, chainName, chain.Policy>>),
       MustNewConstMetric(defaultBytesDesc, float64(chain.Bytes),
                          <<cmd, tableName, chainName, chain.Policy>>) >>
    \o Concat([r \in DOMAIN chain.Rules |->
                  ruleMetrics(cmd, tableName, chainName, chain.Rules[r])])

\* Lines 105-146: the samples of one result, tables visited in the order to
\* and the chains of table t in the order co[t].
tablesMetrics(cmd, tables, to, co) ==
    Concat([i \in DOMAIN to |->
              Concat([j \in DOMAIN co[to[i]] |->
                        chainMetrics(cmd, to[i], co[to[i]][j],
                                     tables[to[i]][co[to[i]][j]])])])

\* Lines 99-103: what the failure branch sends.
failureMetrics == << MustNewConstMetric(scrapeSuccessDesc, Num(0), <<>>) >>

\* With the duration sent before the success flag.
finalMetricsDurationFirst(d) ==
    << MustNewConstMetric(scrapeDurationDesc, Num(d), <<>>),
       MustNewConstMetric(scrapeSuccessDesc, Num(1), <<>>) >>

\* Lines 148-150: what is sent after the loop.
finalMetrics(d) ==
    << MustNewConstMetric(scrapeSuccessDesc, Num(1), <<>>),
       MustNewConstMetric(scrapeDurationDesc, Num(d), <<>>) >>

\* With the executable token taken as it is split, not trimmed.
loopHeadUntrimmed(k) ==
    LET split == Split(commands[k]).tokens
    IN  IF Len(split) = 0
        THEN [next |-> "panic", command |-> commands[k], _command |-> split]
        ELSE [next |-> IF Len(Trim(split[1], spaceRunes)) < 1 THEN "continue" ELSE "call",
              command |-> split[1], _command |-> split]

\* Lines 92-97: the head of one iteration, up to the call of GetTables.
\* Indexing an empty token slice panics; an empty executable continues.
loopHead(k) ==
    LET split == Split(commands[k]).tokens
    IN  IF Len(split) = 0
        THEN [next |-> "panic", command |-> commands[k], _command |-> split]
        ELSE LET exe == Trim(split[1], spaceRunes)
             IN  [next |-> IF Len(exe) < 1 THEN "continue" ELSE "call",
                  command |-> exe, _command |-> split]

\* A GetTables invocation as the scrape's log keeps it: the slot, the
\* executable and arguments passed, how many samples had been sent when it
\* was made (at) and when the samples of its result had been sent (end),
\* and how it ended ("pending" while it runs).
Call(k, exe, args, at) ==
    [slot |-> k, name |-> exe, args |-> args, at |-> at, end |-> at,
     state |-> "pending", tables |-> <<>>]

\* The log with its last invocation ended.
Ended(log, state, tables, end) ==
    [log EXCEPT ![Len(log)].state = state, ![Len(log)].tables = tables,
                ![Len(log)].end = end]

\* iptables.GetTables(name, args...): the outcomes an invocation may have,
\* an error or the parsed tables.
GetTables(name, args) ==
    {[err |-> TRUE, tables |-> <<>>]} \cup {[err |-> FALSE, tables |-> t] : t \in TablesValues}

\* Lines 92-150 from the head of iteration k on: the scrape's state at the
\* next call of GetTables, at the panic, or after the return.  h is the
\* head of iteration k.
RECURSIVE loopFrom(_, _, _, _)
iteration(k, h, chan, log, d) ==
    CASE h.next = "panic" ->
           [pc |-> "panic", idx |-> k, command |-> h.command,
            _command |-> h._command, metricChan |-> chan, calls |-> log]
      [] h.next = "continue" -> loopFrom(k + 1, chan, log, d)
      [] OTHER ->
           [pc |-> "running", idx |-> k, command |-> h.command,
            _command |-> h._command, metricChan |-> chan,
            calls |-> Append(log, Call(k, h.command, Tail(h._command), Len(chan)))]

loopFrom(k, chan, log, d) ==
    IF k > NumCommands
    THEN [pc |-> "done", idx |-> k, command |-> <<>>, _command |-> <<>>,
          metricChan |-> chan \o finalMetrics(d), calls |-> log]
    ELSE iteration(k, loopHead(k), chan, log, d)

\* With the next GetTables started before the samples are sent.
afterTablesEarlyCall(k, chan, log, tables, d) ==
    LET st == loopFrom(k + 1, chan, Ended(log, "ok", tables, Len(chan)), d)
    IN  IF Len(st.calls) > Len(log)
        THEN [st EXCEPT !.calls[Len(st.calls)].at = log[Len(log)].at,
                        !.calls[Len(st.calls)].end = log[Len(log)].at]
        ELSE st

\* Line 147: the samples of iteration k's tables are on the channel; the
\* loop goes on with iteration k + 1.
afterTables(k, chan, log, tables, d) ==
    loopFrom(k + 1, chan, Ended(log, "ok", tables, Len(chan)), d)

\* An unrecovered panic in a collector goroutine ends the process.
Crashed == \E s \in Scrapes : s.pc = "panic"

\* How many scrapes have ended.
NumDone ==
    BagCardinality([s \in {t \in Scrapes : t.pc = "done"} |-> scrapes[s]])

\* Scrape s goes on to st.
Become(s, st) == scrapes' = (scrapes (-) SetToBag({s})) (+) SetToBag({st})

Init ==
    /\ flags \in FlagValues
    /\ commands = [k \in Slots |-> mainCommand(flags[k])]
    /\ scrapes = EmptyBag
    /\ descChan = <<>>
    /\ descAt = 0

\* With the listing depending on how earlier scrapes ended.
DescribeAfterScrapes ==
    /\ ~Crashed
    /\ descChan' =
         IF \E s \in Scrapes : s.pc = "done" /\ Len(s.calls) > 0
                                  /\ s.calls[Len(s.calls)].state = "error"
         THEN << scrapeSuccessDesc, defaultBytesDesc, defaultPacketsDesc,
                 ruleBytesDesc, rulePacketsDesc >>
         ELSE << scrapeDurationDesc, scrapeSuccessDesc, defaultBytesDesc,
                 defaultPacketsDesc, ruleBytesDesc, rulePacketsDesc >>
    /\ descAt' = NumDone
    /\ UNCHANGED <<flags, commands, scrapes>>

\* Lines 80-87.
Describe ==
    /\ ~Crashed
    /\ descChan' = << scrapeDurationDesc, scrapeSuccessDesc, defaultBytesDesc,
                      defaultPacketsDesc, ruleBytesDesc, rulePacketsDesc >>
    /\ descAt' = NumDone
    /\ UNCHANGED <<flags, commands, scrapes>>

\* With the samples of an ended invocation kept on the channel.
CollectKeepsSamples ==
    /\ ~Crashed
    /\ BagCardinality(scrapes) < MaxScrapes
    /\ \E d \in Durations :
         \E chan \in IF \E s \in Scrapes : s.pc = "done"
                     THEN {SelectSeq(s.metricChan, LAMBDA m : Len(m.labels) > 0)
                           : s \in {t \in Scrapes : t.pc = "done"}}
                     ELSE {<<>>} :
            scrapes' = scrapes (+) SetToBag({loopFrom(1, chan, <<>>, d)})
    /\ UNCHANGED <<flags, commands, descChan, descAt>>

\* With a failure ending every scrape in flight.
GetTablesFailsForAll(s) ==
    /\ ~Crashed
    /\ s.pc = "running"
    /\ LET failed(t) == [t EXCEPT !.pc = "done",
                                  !.metricChan = t.metricChan \o failureMetrics,
                                  !.calls = Ended(t.calls, "error", <<>>,
                                                  Len(t.metricChan))]
           running == {t \in Scrapes : t.pc = "running"}
       IN  scrapes' = [t \in (Scrapes \ running) \cup {failed(u) : u \in running} |->
                          (IF t \in Scrapes THEN scrapes[t] ELSE 0)
                          + BagCardinality([u \in {v \in running : failed(v) = t}
                                            |-> scrapes[u]])]
    /\ UNCHANGED <<flags, commands, descChan, descAt>>

\* Collect is invoked and runs to its first call of GetTables, or to its
\* end when no command is enabled.
Collect ==
    /\ ~Crashed
    /\ BagCardinality(scrapes) < MaxScrapes
    /\ \E d \in Durations :
         scrapes' = scrapes (+) SetToBag({loopFrom(1, <<>>, <<>>, d)})
    /\ UNCHANGED <<flags, commands, descChan, descAt>>

\* With the return of line 102 missing: the loop goes on after a failure.
GetTablesFailsLoopGoesOn(s) ==
    /\ ~Crashed
    /\ s.pc = "running"
    /\ \E r \in GetTables(s.command, Tail(s._command)), d \in Durations :
         /\ r.err
         /\ Become(s, loopFrom(s.idx + 1, s.metricChan \o failureMetrics,
                               Ended(s.calls, "error", r.tables, Len(s.metricChan)),
                               d))
    /\ UNCHANGED <<flags, commands, descChan, descAt>>

\* With a failed command run a second time before the scrape gives up.
GetTablesFailsRetries(s) ==
    /\ ~Crashed
    /\ s.pc = "running"
    /\ \E r \in GetTables(s.command, Tail(s._command)) :
         /\ r.err
         /\ LET log == Ended(s.calls, "error", r.tables, Len(s.metricChan))
            IN  IF Cardinality({n \in DOMAIN log : log[n].slot = s.idx}) < 2
                THEN Become(s, [s EXCEPT !.calls =
                                   Append(log, Call(s.idx, s.command, Tail(s._command),
                                                    Len(s.metricChan)))])
                ELSE Become(s, [s EXCEPT !.pc = "done",
                                         !.metricChan = s.metricChan \o failureMetrics,
                                         !.calls = log])
    /\ UNCHANGED <<flags, commands, descChan, descAt>>

\* Lines 98-103: GetTables returns an error.
GetTablesFails(s) ==
    /\ ~Crashed
    /\ s.pc = "running"
    /\ \E r \in GetTables(s.command, Tail(s._command)) :
         /\ r.err
         /\ Become(s, [pc |-> "done", idx |-> s.idx, command |-> s.command,
                       _command |-> s._command,
                       metricChan |-> s.metricChan \o failureMetrics,
                       calls |-> Ended(s.calls, "error", r.tables,
                                      Len(s.metricChan))])
    /\ UNCHANGED <<flags, commands, descChan, descAt>>

\* With the loop variable standing for the slot of the array itself, so
\* that the trimmed executable is written into the command list.
GetTablesReturnsWritesBack(s) ==
    /\ ~Crashed
    /\ s.pc = "running"
    /\ \E r \in GetTables(s.command, Tail(s._command)), d \in Durations :
         /\ ~r.err
         /\ \E to \in Orderings(DOMAIN r.tables), co \in ChainOrderings(r.tables) :
              Become(s, afterTables(s.idx,
                                    s.metricChan \o tablesMetrics(s.command, r.tables, to, co),
                                    s.calls, r.tables, d))
    /\ commands' = [commands EXCEPT ![s.idx] = s.command]
    /\ UNCHANGED <<flags, descChan, descAt>>

\* Lines 98-150: GetTables returns tables; their samples are sent and the
\* loop goes on to the next call of GetTables or to the end.
GetTablesReturns(s) ==
    /\ ~Crashed
    /\ s.pc = "running"
    /\ \E r \in GetTables(s.command, Tail(s._command)), d \in Durations :
         /\ ~r.err
         /\ \E to \in Orderings(DOMAIN r.tables), co \in ChainOrderings(r.tables) :
              Become(s, afterTables(s.idx,
                                    s.metricChan \o tablesMetrics(s.command, r.tables, to, co),
                                    s.calls, r.tables, d))
    /\ UNCHANGED <<flags, commands, descChan, descAt>>

Next ==
    \/ Describe
    \/ Collect
    \/ \E s \in Scrapes : GetTablesFails(s)
    \/ \E s \in Scrapes : GetTablesReturns(s)

Spec == Init /\ [][Next]_vars

\* Line 98 sets no timeout: the external program of an invocation may
\* never end, and the scrape stays inside GetTables ("blocked") for good.
GetTablesHangs(s) ==
    /\ ~Crashed
    /\ s.pc = "running"
    /\ Become(s, [s EXCEPT !.pc = "blocked"])
    /\ UNCHANGED <<flags, commands, descChan, descAt>>

\* An invocation of GetTables that is not blocked returns.
GetTablesEnds == \E s \in Scrapes : GetTablesFails(s) \/ GetTablesReturns(s)

NextLive ==
    \/ Next
    \/ \E s \in Scrapes : GetTablesHangs(s)

\* The collector with invocations that may hang, every other invocation
\* returning in the end; metricChan is always received from.
SpecLive == Init /\ [][NextLive]_vars /\ WF_vars(GetTablesEnds)

---------------------------------------------------------------------------
(* Properties *)

Range(seq) == {seq[i] : i \in DOMAIN seq}

CountIn(seq, m) == Cardinality({i \in DOMAIN seq : seq[i] = m})

IsCounterSample(m) ==
    m.desc \in {defaultPacketsDesc, defaultBytesDesc, rulePacketsDesc, ruleBytesDesc}

\* The values of the scrape_success samples scrape s has sent, in order.
SuccessValues(s) ==
    LET sel == SelectSeq(s.metricChan, LAMBDA m : m.desc = scrapeSuccessDesc)
    IN  [i \in DOMAIN sel |-> sel[i].value]

DurationCount(s) ==
    Cardinality({i \in DOMAIN s.metricChan : s.metricChan[i].desc = scrapeDurationDesc})

\* The samples scrape s sent for its n-th GetTables invocation.
Segment(s, n) == SubSeq(s.metricChan, s.calls[n].at + 1, s.calls[n].end)

ChainKeys(tables) ==
    UNION { {<<t, c>> : c \in DOMAIN tables[t]} : t \in DOMAIN tables }

RuleKeys(tables) ==
    UNION { {<<k[1], k[2], i>> : i \in DOMAIN tables[k[1]][k[2]].Rules}
            : k \in ChainKeys(tables) }

Exact(x) == x

\* The sample the specification's step 5 asks for: for a chain key <<t, c>>
\* a default sample, for a rule key <<t, c, i>> a rule sample, of the
\* packets or bytes family, its value the counter as conv represents it.
Wanted(conv(_), cmd, tables, key, field) ==
    LET chain == tables[key[1]][key[2]]
    IN  IF Len(key) = 2
        THEN [desc |-> IF field = "Packets" THEN defaultPacketsDesc ELSE defaultBytesDesc,
              value |-> conv(chain[field]),
              labels |-> <<cmd, key[1], key[2], chain.Policy>>]
        ELSE [desc |-> IF field = "Packets" THEN rulePacketsDesc ELSE ruleBytesDesc,
              value |-> conv(chain.Rules[key[3]][field]),
              labels |-> <<cmd, key[1], key[2], chain.Rules[key[3]].Rule>>]

WantedKeys(tables) == (ChainKeys(tables) \cup RuleKeys(tables)) \X {"Packets", "Bytes"}

\* The samples step 5 asks for, each with its key.
WantedPairs(conv(_), cmd, tables) ==
    {<<w, Wanted(conv, cmd, tables, w[1], w[2])>> : w \in WantedKeys(tables)}

WantedSet(conv(_), cmd, tables) ==
    {Wanted(conv, cmd, tables, w[1], w[2]) : w \in WantedKeys(tables)}

\* The samples of segment seg are those of want, each as often as it is
\* wanted, and no others.
SameSamples(seg, want) ==
    /\ Len(seg) = Cardinality(want)
    /\ \A p \in want : CountIn(seg, p[2]) = Cardinality({q \in want : q[2] = p[2]})

SegmentIs(conv(_), seg, cmd, tables) ==
    SameSamples(seg, WantedPairs(conv, cmd, tables))

FailedAt(s, k) ==
    \E n \in DOMAIN s.calls : s.calls[n].slot = k /\ s.calls[n].state = "error"

\* C1: when GetTables fails for command k, the scrape has sent
\* scrape_success = 0 exactly once, has invoked GetTables for no later
\* command, has sent no default or rule sample after the failure, and the
\* samples of the commands that succeeded before k are all still there.
C1_FailureStopsScrape ==
    \A s \in Scrapes : \A k \in Slots :
        FailedAt(s, k) =>
            LET n == Len(s.calls)
            IN  /\ s.calls[n].slot = k
                /\ \A j \in DOMAIN s.calls : s.calls[j].slot <= k
                /\ SuccessValues(s) = << Num(0) >>
                /\ s.metricChan[Len(s.metricChan)] = failureMetrics[1]
                /\ Len(s.metricChan) = s.calls[n].at + 1
                /\ \A i \in DOMAIN s.metricChan :
                     i > s.calls[n].at => ~IsCounterSample(s.metricChan[i])
                /\ \A j \in 1..(n - 1) :
                     /\ s.calls[j].state = "ok"
                     /\ s.calls[j].end <= s.calls[n].at
                     /\ SegmentIs(float64, Segment(s, j), s.calls[j].name,
                                  s.calls[j].tables)

\* A scrape whose first command succeeded with the two-table result and
\* whose second command failed.
C1_Witness ==
    \E s \in Scrapes :
        /\ s.pc = "done"
        /\ Len(s.calls) = 2
        /\ s.calls[1].state = "ok" /\ s.calls[1].tables = tablesTwo
        /\ FailedAt(s, 2)
        /\ Len(s.metricChan) > 1

SplitFails(k) == Split(commands[k]).err

\* C2: a command whose token splitting fails is a failed command: no
\* GetTables invocation is made for it or for a later command, no sample
\* is sent for them, and the scrape that reaches it ends with
\* scrape_success = 0 sent exactly once.
C2_SplitFailureIsCommandFailure ==
    \A s \in Scrapes : \A k \in Slots :
        SplitFails(k) =>
            /\ \A n \in DOMAIN s.calls : s.calls[n].slot < k
            /\ s.pc = "done" /\ s.idx >= k => SuccessValues(s) = << Num(0) >>

\* A scrape that reached a command with an unterminated quote and ended.
C2_Reached ==
    \E s \in Scrapes : \E k \in Slots :
        SplitFails(k) /\ s.pc = "done" /\ s.idx >= k

\* The executable token of command k is empty: the command is disabled.
Disabled(k) ==
    \/ flags[k] = <<>>
    \/ LET split == Split(commands[k]).tokens
       IN  split # <<>> /\ Trim(split[1], spaceRunes) = <<>>

\* Command k succeeded in scrape s: it was split without error and its
\* GetTables invocation returned tables.
Succeeded(s, k) ==
    /\ ~SplitFails(k)
    /\ \E n \in DOMAIN s.calls : s.calls[n].slot = k /\ s.calls[n].state = "ok"

AllSucceeded(s) == \A k \in Slots : ~Disabled(k) => Succeeded(s, k)

\* C3: a completed scrape has sent exactly one scrape_success sample, 1 if
\* every enabled command succeeded and 0 otherwise, and has sent
\* scrape_duration_seconds once if that value is 1 and not at all if it is 0.
C3_SuccessIffAllSucceeded ==
    \A s \in Scrapes :
        s.pc = "done" =>
            /\ Len(SuccessValues(s)) = 1
            /\ SuccessValues(s)[1] = (IF AllSucceeded(s) THEN Num(1) ELSE Num(0))
            /\ DurationCount(s) = (IF SuccessValues(s)[1] = Num(1) THEN 1 ELSE 0)

\* C4: a command whose flag is the empty string is never handed to
\* GetTables, no sample is sent for it, no scrape stops at it, and the
\* scrape goes on with the next command.
C4_DisabledCommandSkipped ==
    \A k \in Slots : flags[k] = <<>> =>
        \A s \in Scrapes :
            /\ \A n \in DOMAIN s.calls : s.calls[n].slot # k
            /\ \A i \in DOMAIN s.metricChan :
                 IsCounterSample(s.metricChan[i]) =>
                    \E n \in DOMAIN s.calls :
                        /\ s.calls[n].at < i /\ i <= s.calls[n].end
                        /\ s.metricChan[i].labels[1] = s.calls[n].name
                        /\ s.calls[n].name # <<>>
            /\ s.idx # k
            /\ s.idx > k /\ k < NumCommands
                    /\ loopHead(k + 1).next = "call"
                 => \E n \in DOMAIN s.calls : s.calls[n].slot = k + 1

\* The first command is disabled and a scrape went on to run the second.
C4_Witness ==
    \E s \in Scrapes :
        /\ flags[1] = <<>>
        /\ s.pc = "done"
        /\ Len(s.calls) = 1 /\ s.calls[1].slot = 2 /\ s.calls[1].state = "ok"
        /\ SuccessValues(s) = << Num(1) >>

RECURSIVE SumOver(_, _)
SumOver(f(_), seq) == IF seq = <<>> THEN 0 ELSE f(Head(seq)) + SumOver(f, Tail(seq))

NumChains(call) == Cardinality(ChainKeys(call.tables))
NumRules(call) == Cardinality(RuleKeys(call.tables))

\* C5: a scrape all of whose commands succeeded has sent 2*M + 2*R + 2
\* samples, M the chains and R the rules of all its results.
C5_SampleCount ==
    \A s \in Scrapes :
        s.pc = "done" /\ (\A n \in DOMAIN s.calls : s.calls[n].state = "ok") =>
            Len(s.metricChan) =
                2 * SumOver(NumChains, s.calls) + 2 * SumOver(NumRules, s.calls) + 2

\* A successful scrape of two commands, one result with an empty chain and
\* one with several rules in a chain.
C5_Witness ==
    \E s \in Scrapes :
        /\ s.pc = "done"
        /\ Len(s.calls) = 2
        /\ s.calls[1].state = "ok" /\ s.calls[1].tables = tablesOne
        /\ s.calls[2].state = "ok" /\ s.calls[2].tables = tablesTwo
        /\ AllSucceeded(s)

\* Every default or rule sample of scrape s belongs to the result of one
\* of its GetTables invocations that returned tables.
CounterSamplesOwned(s) ==
    \A i \in DOMAIN s.metricChan :
        IsCounterSample(s.metricChan[i]) =>
            \E n \in DOMAIN s.calls :
                s.calls[n].state = "ok" /\ s.calls[n].at < i /\ i <= s.calls[n].end

\* The samples each scrape sent for each successful result are the wanted
\* ones, their values the counters as conv represents them.
ResultsSentAs(conv(_)) ==
    \A s \in Scrapes :
        /\ CounterSamplesOwned(s)
        /\ \A n \in DOMAIN s.calls :
             s.calls[n].state = "ok" =>
                SegmentIs(conv, Segment(s, n), s.calls[n].name, s.calls[n].tables)

\* C6 as stated: per chain one default packets and one default bytes
\* sample, per rule one rule packets and one rule bytes sample, labelled as
\* in step 5, their values equal to the counters, and no other default or
\* rule sample.
C6_ExactCounterValues == ResultsSentAs(Exact)

\* The counter x is at most 2^53.
AtMost2to53(x) == x[1] < Pow2(23) \/ x = U64(Pow2(23), 0)

\* C6 amended: as C6, the values being the counters converted to float64;
\* the sample of a counter of at most 2^53 carries the counter itself.
C6_Float64CounterValues ==
    /\ ResultsSentAs(float64)
    /\ \A s \in Scrapes : \A n \in DOMAIN s.calls :
         s.calls[n].state = "ok" =>
            \A p \in WantedPairs(Exact, s.calls[n].name, s.calls[n].tables) :
                AtMost2to53(p[2].value) => CountIn(Segment(s, n), p[2]) > 0

\* A result with a byte counter of 2^53 + 1 was sent, as 2^53.
C6_Witness ==
    \E s \in Scrapes : \E n \in DOMAIN s.calls :
        /\ s.calls[n].state = "ok"
        /\ s.calls[n].tables = tablesTwo
        /\ \E m \in Range(Segment(s, n)) :
             /\ m.desc = defaultBytesDesc
             /\ m.labels = <<s.calls[n].name, "filter", "INPUT", "DROP">>
             /\ m.value = U64(Pow2(23), 0)
             /\ tablesTwo["filter"]["INPUT"].Bytes = U64(Pow2(23), 1)

\* C7: within a scrape the commands are run in configuration order, one
\* GetTables invocation at a time: an invocation is made only when every
\* enabled command before it has returned tables and their samples have
\* been sent, so the samples of an earlier command all precede those of a
\* later one.
C7_SequentialInOrder ==
    \A s \in Scrapes :
        LET log == s.calls
        IN  /\ \A n \in DOMAIN log :
                 /\ log[n].at <= log[n].end /\ log[n].end <= Len(s.metricChan)
                 /\ \A i \in (log[n].at + 1)..log[n].end :
                      /\ IsCounterSample(s.metricChan[i])
                      /\ s.metricChan[i].labels[1] = log[n].name
                 /\ n < Len(log) =>
                      /\ log[n].state = "ok"
                      /\ log[n].slot < log[n + 1].slot
                      /\ log[n].end <= log[n + 1].at
                 /\ \A k \in 1..(log[n].slot - 1) :
                      loopHead(k).next = "call" =>
                         \E j \in 1..(n - 1) : log[j].slot = k
            /\ Cardinality({n \in DOMAIN log : log[n].state = "pending"})
                 = (IF s.pc = "running" THEN 1 ELSE 0)
            /\ CounterSamplesOwned(s)

\* The second command's GetTables is running after the first command's
\* samples were sent.
C7_Witness ==
    \E s \in Scrapes :
        /\ s.pc = "running"
        /\ Len(s.calls) = 2
        /\ s.calls[1].end > s.calls[1].at
        /\ s.calls[2].at = s.calls[1].end
        /\ s.calls[2].name # s.calls[1].name

\* What the GetTables invocations of scrape s returned.
Results(s) ==
    [n \in DOMAIN s.calls |-> <<s.calls[n].slot, s.calls[n].state, s.calls[n].tables>>]

NotDuration(m) == m.desc # scrapeDurationDesc

\* The samples scrape s has sent other than the duration, each with the
\* number of times it was sent.
SampleBag(s) ==
    LET seq == SelectSeq(s.metricChan, NotDuration)
    IN  [m \in Range(seq) |-> CountIn(seq, m)]

C9_DescribeFixed ==
    descChan # <<>> =>
        descChan = << "iptables_scrape_duration_seconds", "iptables_scrape_success",
                      "iptables_default_bytes_total", "iptables_default_packets_total",
                      "iptables_rule_bytes_total", "iptables_rule_packets_total" >>

\* The latest listing was made after a failed and a successful scrape.
C9_Witness ==
    /\ descChan # <<>>
    /\ descAt >= 2
    /\ \E s \in Scrapes : s.pc = "done" /\ SuccessValues(s) = << Num(0) >>
    /\ \E s \in Scrapes : s.pc = "done" /\ SuccessValues(s) = << Num(1) >>

SampleSet(s) == {m \in Range(s.metricChan) : NotDuration(m)}

\* The samples the results returned to scrape s ask for, and its success flag.
OwnSamples(s) ==
    UNION { WantedSet(float64, s.calls[n].name, s.calls[n].tables)
            : n \in {j \in DOMAIN s.calls : s.calls[j].state = "ok"} }
    \cup { MustNewConstMetric(scrapeSuccessDesc,
                              IF \A n \in DOMAIN s.calls : s.calls[n].state = "ok"
                              THEN Num(1) ELSE Num(0), <<>>) }

\* C10: the samples of a completed scrape, the duration apart, are those
\* its own results ask for and nothing else, so two completed scrapes with
\* the same results have sent the same set of samples, whatever ran before
\* or between them.
C10_HistoryFree ==
    /\ \A s \in Scrapes : s.pc = "done" => SampleSet(s) = OwnSamples(s)
    /\ \A s, t \in Scrapes :
         s.pc = "done" /\ t.pc = "done" /\ Results(s) = Results(t)
            => SampleSet(s) = SampleSet(t)

\* Two completed scrapes with the same results, sent in different orders.
C10_Witness ==
    \E s, t \in Scrapes :
        /\ s # t
        /\ s.pc = "done" /\ t.pc = "done"
        /\ Results(s) = Results(t)
        /\ Len(s.calls) = 2
        /\ s.metricChan # t.metricChan

IsRuleSample(m) == m.desc \in {rulePacketsDesc, ruleBytesDesc}

\* The label tuples of the rule samples of family desc in segment seg.
RuleSeries(seg, desc) == {m.labels : m \in {x \in Range(seg) : x.desc = desc}}

\* The table, chain and text of each rule of a result.
RuleIdentities(tables) ==
    {<<k[1], k[2], tables[k[1]][k[2]].Rules[k[3]].Rule>> : k \in RuleKeys(tables)}

\* C11: within one command's result every rule is sent under the labels
\* (command, its table, its chain, its text verbatim), so that rules which
\* differ in table, chain or text are sent as different series: there are
\* as many rule series of a family as there are different (table, chain,
\* text) triples among the rules.
C11_DistinctRuleSeries ==
    \A s \in Scrapes : \A n \in DOMAIN s.calls :
        s.calls[n].state = "ok" =>
            LET seg == Segment(s, n)
                ids == RuleIdentities(s.calls[n].tables)
            IN  \A desc \in {rulePacketsDesc, ruleBytesDesc} :
                    /\ RuleSeries(seg, desc) =
                          {<<s.calls[n].name, id[1], id[2], id[3]>> : id \in ids}
                    /\ Cardinality(RuleSeries(seg, desc)) = Cardinality(ids)

\* A result was sent in which the same rule text sits in chains of two
\* tables and a chain holds rules of different text.
C11_Witness ==
    \E s \in Scrapes : \E n \in DOMAIN s.calls :
        /\ s.calls[n].state = "ok"
        /\ \E a, b \in RuleSeries(Segment(s, n), rulePacketsDesc) :
              a[4] = b[4] /\ a[2] # b[2]
        /\ \E a, b \in RuleSeries(Segment(s, n), rulePacketsDesc) :
              a[4] # b[4] /\ a[2] = b[2] /\ a[3] = b[3]

\* The slots whose iteration scrape s has gone through or is in.
SlotsReached(s) ==
    {k \in Slots : IF s.pc = "panic" THEN k < s.idx ELSE k <= s.idx}

InvocationsFor(s, k) == {n \in DOMAIN s.calls : s.calls[n].slot = k}

\* C12: no retry.  In every scrape GetTables is invoked at most once for
\* each configured command, exactly once for each enabled command the
\* scrape has come to, and never again once an invocation has failed: a
\* failed invocation is the scrape's last.
C12_NoRetry ==
    \A s \in Scrapes :
        /\ \A k \in Slots : Cardinality(InvocationsFor(s, k)) <= 1
        /\ \A k \in SlotsReached(s) :
              ~Disabled(k) => Cardinality(InvocationsFor(s, k)) = 1
        /\ \A n \in DOMAIN s.calls :
              s.calls[n].state = "error" => n = Len(s.calls) /\ s.pc = "done"
        /\ \A k \in Slots : FailedAt(s, k) =>
              \A j \in Slots : j > k => InvocationsFor(s, j) = {}

\* A scrape whose first command failed although a second one is enabled,
\* and a scrape that ran both commands once each.
C12_Witness ==
    /\ \E s \in Scrapes :
          /\ s.pc = "done" /\ FailedAt(s, 1) /\ ~Disabled(2)
          /\ Len(s.calls) = 1
    /\ \E s \in Scrapes :
          /\ s.pc = "done" /\ Len(s.calls) = 2 /\ FailedAt(s, 2)

\* C13: no two samples a scrape has sent have the same metric family and
\* the same tuple of label values.
C13_SeriesUnique ==
    \A s \in Scrapes : \A i, j \in DOMAIN s.metricChan :
        i < j => \/ s.metricChan[i].desc # s.metricChan[j].desc
                 \/ s.metricChan[i].labels # s.metricChan[j].labels

\* C14: no scrape fails abnormally, whatever the configured command
\* strings: no scrape reads the first token of an empty token sequence,
\* and a scrape that has returned has sent exactly one scrape_success.
C14_NoAbnormalFailure ==
    \A s \in Scrapes :
        /\ s.pc # "panic"
        /\ s.pc = "done" => Len(SuccessValues(s)) = 1

\* C15: GetTables is invoked with the first token of the command, trimmed
\* of spaces, tabs, CR and LF, as executable and the other tokens, in
\* order and as they are, as arguments; every sample sent for the result
\* of the invocation has that executable as its command label.
C15_ExecutableAndArguments ==
    \A s \in Scrapes : \A n \in DOMAIN s.calls :
        LET call == s.calls[n]
            tokens == Split(commands[call.slot]).tokens
        IN  /\ tokens # <<>>
            /\ call.name = Trim(tokens[1], spaceRunes)
            /\ call.name # <<>>
            /\ \A i \in DOMAIN call.name : call.name[i] \notin spaceRunes
            /\ call.args = [i \in 1..(Len(tokens) - 1) |-> tokens[i + 1]]
            /\ \A i \in (call.at + 1)..call.end :
                  s.metricChan[i].labels[1] = call.name

\* The command 'a ' 'c ' was run as executable a with the one argument
\* "c " and the samples of its result are labelled a.
C15_Witness ==
    \E s \in Scrapes :
        /\ flags[1] = cmdPadded
        /\ Len(s.calls) = 1 /\ s.calls[1].state = "ok"
        /\ s.calls[1].name = <<"a">>
        /\ s.calls[1].args = << <<"c", " ">> >>
        /\ s.calls[1].end > s.calls[1].at
        /\ \A m \in Range(Segment(s, 1)) : m.labels[1] = <<"a">>

\* The samples of chain key = <<table, chain>> in the order C16 states:
\* default packets, default bytes, then packets and bytes of rule 1, of
\* rule 2, and so on.
ChainBlock(cmd, tables, key) ==
    [i \in 1..(2 + 2 * Len(tables[key[1]][key[2]].Rules)) |->
        Wanted(float64, cmd, tables,
               IF i <= 2 THEN key ELSE <<key[1], key[2], (i - 1) \div 2>>,
               IF i % 2 = 1 THEN "Packets" ELSE "Bytes")]

\* Where in segment seg the samples of a chain are.
ChainPositions(seg, key) ==
    {i \in DOMAIN seg : seg[i].labels[2] = key[1] /\ seg[i].labels[3] = key[2]}

\* C16: the samples of each chain of a result are sent as one run, no
\* sample of another chain in between, and in the order default packets,
\* default bytes, then for each rule in the chain's order its packets and
\* its bytes.
C16_OrderWithinChain ==
    \A s \in Scrapes : \A n \in DOMAIN s.calls :
        s.calls[n].state = "ok" =>
            LET seg == Segment(s, n)
            IN  \A key \in ChainKeys(s.calls[n].tables) :
                    LET pos == ChainPositions(seg, key)
                        block == ChainBlock(s.calls[n].name, s.calls[n].tables, key)
                    IN  /\ pos # {}
                        /\ LET lo == CHOOSE i \in pos : \A j \in pos : i <= j
                           IN  /\ pos = lo..(lo + Len(block) - 1)
                               /\ SubSeq(seg, lo, lo + Len(block) - 1) = block

\* A result was sent with a chain of rules of different text and with
\* another chain's samples before or after them.
C16_Witness ==
    \E s \in Scrapes : \E n \in DOMAIN s.calls :
        /\ s.calls[n].state = "ok" /\ s.calls[n].tables = tablesTwo
        /\ LET seg == Segment(s, n)
           IN  /\ seg[1].labels[2] = "nat"
               /\ seg[5].desc = defaultPacketsDesc /\ seg[6].desc = defaultBytesDesc
               /\ seg[7].desc = rulePacketsDesc /\ seg[7].labels[4] = ruleDrop
               /\ seg[8].desc = ruleBytesDesc /\ seg[8].labels[4] = ruleDrop
               /\ seg[9].labels[4] = ruleAccept
               /\ Len(seg) = 12

\* C17: the meta-samples close the scrape.  A scrape that returned after
\* sending scrape_success = 1 sent it after every default and rule sample
\* and sent scrape_duration_seconds last; a scrape that returned after a
\* failure sent scrape_success = 0 last, after every sample of the commands
\* that succeeded before.
C17_MetaSamplesClose ==
    \A s \in Scrapes :
        s.pc = "done" =>
            LET chan == s.metricChan
                last == Len(chan)
            IN  IF \E n \in DOMAIN s.calls : s.calls[n].state = "error"
                THEN /\ last >= 1
                     /\ chan[last].desc = scrapeSuccessDesc /\ chan[last].value = Num(0)
                     /\ \A i \in 1..(last - 1) : IsCounterSample(chan[i])
                     /\ \A n \in DOMAIN s.calls : s.calls[n].end < last
                ELSE /\ last >= 2
                     /\ chan[last].desc = scrapeDurationDesc
                     /\ chan[last - 1].desc = scrapeSuccessDesc
                     /\ chan[last - 1].value = Num(1)
                     /\ \A i \in 1..(last - 2) : IsCounterSample(chan[i])
                     /\ \A n \in DOMAIN s.calls : s.calls[n].end <= last - 2

\* A scrape that sent the samples of two results and then succeeded, and a
\* scrape that sent those of its first command and then failed.
C17_Witness ==
    /\ \E s \in Scrapes :
          /\ s.pc = "done" /\ Len(s.calls) = 2 /\ s.calls[2].state = "ok"
          /\ s.calls[2].end > s.calls[2].at
          /\ s.metricChan[Len(s.metricChan)].desc = scrapeDurationDesc
    /\ \E s \in Scrapes :
          /\ s.pc = "done" /\ FailedAt(s, 2)
          /\ s.calls[1].end > s.calls[1].at
          /\ s.metricChan[Len(s.metricChan)].value = Num(0)

\* C18: scrapes and listings leave the command list as main set it up:
\* every slot holds at every time the string it held when serving
\* started, although each scrape sets its own copy of the command to the
\* trimmed executable token.
C18_CommandsUnchanged ==
    /\ [](commands = [k \in Slots |-> mainCommand(flags[k])])
    /\ [][commands' = commands]_vars

\* A scrape is running the second command, its copy of the command being
\* the executable alone, after another scrape has ended and a listing was
\* made.
C18_Witness ==
    /\ \E s \in Scrapes :
          /\ s.pc = "running" /\ s.idx = 2
          /\ commands[2] = cmdBC
          /\ s.command = <<"b">>
    /\ \E s \in Scrapes : s.pc = "done"
    /\ descChan # <<>>

\* C19: every scrape whose GetTables invocations return completes: again
\* and again no scrape is in flight except those blocked in an invocation
\* that never returns, which hold up no other scrape, and a scrape that
\* has returned has sent its scrape_success sample.
C19_ScrapesComplete ==
    /\ []<>(\A s \in Scrapes : s.pc \in {"done", "blocked"})
    /\ [](\A s \in Scrapes : s.pc = "done" => Len(SuccessValues(s)) = 1)

====
